---- MODULE Spec2Model ----
(***************************************************************************)
(* Model of the fused matmul + epilogue engine of                          *)
(* transformer_engine/common/gemm/cublaslt_gemm.cu: the entry point        *)
(* nvte_cublas_gemm and the three build variants of cublas_gemm            *)
(* (cublasLt, hipblasLt, rocblas + hand-written epilogue kernels).         *)
(*                                                                         *)
(* Device values are terms: <<"num", n>> is the number n, and the          *)
(* transcendental kernels build tagged terms over their arguments, so that *)
(* gelu(x), gelu'(x) and x stay distinguishable.                           *)
(***************************************************************************)
EXTENDS Integers, Sequences, FiniteSets, TLC

\* ------------------------------------------------------------------ bounds
DimM == 2          \* m: columns of the row-major output (output_dim)
DimN == 2          \* n: rows of the row-major output (batch)
DimK == 2          \* k: contraction length
MaxB == 1          \* B is filled from the patterns 0..MaxB
MaxScale == 1      \* inverse-scale scalars are drawn from 1..MaxScale + 1
MaxCalls == 2      \* calls per behaviour
MaxRows == 3       \* rows of the matrix a reduction launch is given
MaxCols == 2       \* columns of that matrix
MaxThreads == 2    \* THREADS_PER_BLOCK takes the values 1..MaxThreads
BlockLimit == 2    \* stands for the 1024 threads the launchers put in a block
GridLimit == 2     \* stands for the 65536 blocks the gelu launchers cap the grid at
MaxIter == 70      \* loop-condition evaluations followed for one thread

\* ------------------------------------------------------------------ terms
Num(n) == <<"num", n>>
IsNum(t) == t[1] = "num"

\* a + b in single precision; exact on the small integers of the model
Add(a, b) ==
  IF IsNum(a) /\ IsNum(b) THEN Num(a[2] + b[2])
  ELSE IF IsNum(a) /\ a[2] = 0 THEN b
  ELSE IF IsNum(b) /\ b[2] = 0 THEN a
  ELSE <<"add", a, b>>

\* ------------------------------------------------------------ element types
kFloat32 == "kFloat32"
kFloat16 == "kFloat16"
kBFloat16 == "kBFloat16"
kFloat8E4M3 == "kFloat8E4M3"
kFloat8E5M2 == "kFloat8E5M2"
DType == {kFloat32, kFloat16, kBFloat16, kFloat8E4M3, kFloat8E5M2}

is_fp8_dtype(t) == t \in {kFloat8E4M3, kFloat8E5M2}

\* the library's type tag of an element format (one tag per format)
get_cuda_dtype(t) ==
  CASE t = kFloat16 -> "f16_r"
    [] t = kFloat32 -> "f32_r"
    [] t = kBFloat16 -> "bf16_r"
    [] t = kFloat8E4M3 -> "f8_r"
    [] t = kFloat8E5M2 -> "bf8_r"

get_transformer_engine_dtype(t) ==
  CASE t = "f16_r" -> kFloat16
    [] t = "f32_r" -> kFloat32
    [] t = "bf16_r" -> kBFloat16
    [] t = "f8_r" -> kFloat8E4M3
    [] t = "bf8_r" -> kFloat8E5M2

\* TRANSFORMER_ENGINE_TYPE_SWITCH_ROCM_SIM instantiates the kernels for
\* float, fp16 and bf16 only
TypeSwitchOk(t) == t \in {kFloat32, kFloat16, kBFloat16}

\* (T)(value): storing a single-precision value in element type T.  Small
\* integers are exact in every instantiated type; other values are rounded.
Cast(t, v) ==
  IF t = kFloat32 \/ IsNum(v) THEN v
  ELSE IF v[1] = "rnd" /\ v[2] = t THEN v
  ELSE <<"rnd", t, v>>

\* ------------------------------------------------------------------ values
\* the single-precision constants of gelu_forward
Const(c) == <<"const", c>>
half == Const("0.5f")
kBeta == Const("0.7978845608028654f")
kKappa == Const("0.044715f")

\* a single-precision product in normal form: named constants, an integer and
\* at most one other factor (Num(1) when there is none)
Scaled(consts, n, core) ==
  IF n = 0 THEN Num(0)
  ELSE IF consts = {} /\ core = Num(1) THEN Num(n)
  ELSE IF consts = {} /\ n = 1 THEN core
  ELSE <<"scaled", consts, n, core>>

Consts(t) == IF t[1] = "const" THEN {t[2]} ELSE IF t[1] = "scaled" THEN t[2] ELSE {}
Coef(t) == IF t[1] = "num" THEN t[2] ELSE IF t[1] = "scaled" THEN t[3] ELSE 1
Core(t) == IF t[1] \in {"num", "const"} THEN Num(1) ELSE IF t[1] = "scaled" THEN t[4] ELSE t

\* a * b in single precision
Mul(a, b) ==
  IF Core(a) # Num(1) /\ Core(b) # Num(1) THEN <<"mul", a, b>>
  ELSE Scaled(Consts(a) \cup Consts(b), Coef(a) * Coef(b),
              IF Core(a) # Num(1) THEN Core(a) ELSE Core(b))

Tanhf(a) == <<"tanhf", a>>

\* an activation whose inner polynomial has lost its cube
gelu_forward_no_cube(x) ==
  LET cdf == Mul(half, Add(Num(1), Tanhf(Mul(kBeta, Add(x, Mul(kKappa, x))))))
  IN Mul(x, cdf)

\* cdf = 0.5f * (1.0f + tanhf(0.7978845608028654f * (x + 0.044715f * x * x * x)));
\* return x * cdf
gelu_forward(x) ==
  LET cdf == Mul(half, Add(Num(1),
                 Tanhf(Mul(kBeta, Add(x, Mul(Mul(Mul(kKappa, x), x), x))))))
  IN Mul(x, cdf)

\* gelu_backward(x, dy) = dy * (left_derivative + right_derivative)
gelu_backward(x, dy) ==
  IF IsNum(dy) /\ dy[2] = 0 THEN Num(0) ELSE <<"dgelu", x, dy>>

\* ------------------------------------------------------------- call arguments
Backends == {"cublasLt", "hipblasLt", "rocblas"}

\* bias / pre_gelu_out / scale_inv: TRUE when the data pointer is non-null
Config(Ad, Bd, Dd, biasd, auxd, As, Bs, hasBias, hasGelu, ta, tb, g, acc, lg, bv, sv) ==
  [A_dtype |-> Ad, B_dtype |-> Bd, D_dtype |-> Dd, bias_dtype |-> biasd,
   gelu_dtype |-> auxd, A_scale_inv |-> As, B_scale_inv |-> Bs,
   bias |-> hasBias, gelu |-> hasGelu, transa |-> ta, transb |-> tb, grad |-> g,
   accumulate |-> acc, log |-> lg, b |-> bv, scale |-> sv]

\* Wide configuration space, one data point.  A tensor that is not narrow
\* carries no inverse scale; an absent bias / auxiliary tensor has the default
\* element type.
WideConfigs ==
  { Config(Ad, Bd, Dd, biasd, auxd, As, Bs, hb, hg, TRUE, FALSE, g, acc, FALSE, 0, 1) :
      Ad \in DType, Bd \in DType, Dd \in DType,
      biasd \in {kFloat32, kFloat16, kFloat8E4M3}, auxd \in {kFloat16, kFloat8E4M3},
      As \in BOOLEAN, Bs \in BOOLEAN, hb \in BOOLEAN, hg \in BOOLEAN,
      g \in BOOLEAN, acc \in BOOLEAN }

WellShaped(c) ==
  /\ (~c.bias => c.bias_dtype = kFloat32)
  /\ (~c.gelu => c.gelu_dtype = kFloat16)
  /\ (~(is_fp8_dtype(c.A_dtype) \/ is_fp8_dtype(c.B_dtype)) =>
        ~c.A_scale_inv /\ ~c.B_scale_inv)

\* Every transpose / logging combination, over a few element-type triples
LayoutConfigs ==
  { Config(d[1], d[2], d[3], kFloat32, kFloat16, s, s, hb, FALSE, ta, tb, FALSE, FALSE, lg, 0, 1) :
      d \in {<<kFloat16, kFloat16, kFloat16>>, <<kFloat8E4M3, kFloat8E4M3, kFloat32>>},
      s \in BOOLEAN, hb \in BOOLEAN, ta \in BOOLEAN, tb \in BOOLEAN, lg \in BOOLEAN }

Configs == {c \in WideConfigs : WellShaped(c)} \cup LayoutConfigs

\* Narrow configuration space, varied data: three accepted element-type triples;
\* the emulated backend with every epilogue on the fp32 and fp16 triples, the
\* plain multiply otherwise; narrow operands carry their inverse scales
DataTriples ==
  {<<kFloat32, kFloat32, kFloat32>>, <<kFloat16, kFloat16, kFloat16>>,
   <<kFloat8E4M3, kFloat8E4M3, kFloat16>>}

DataLayouts == {<<TRUE, FALSE>>, <<FALSE, TRUE>>}

DataEpilogues(be, d) ==
  IF be = "rocblas" /\ ~is_fp8_dtype(d[1])
    THEN {e \in BOOLEAN \X BOOLEAN \X BOOLEAN : e[1] \/ e[2] \/ ~e[3]}
    ELSE {<<FALSE, FALSE, FALSE>>}

DataScales(d) == IF is_fp8_dtype(d[1]) THEN 1..MaxScale ELSE {1}

DataConfigs(be) ==
  UNION { { Config(d[1], d[2], d[3], d[3], d[3], is_fp8_dtype(d[1]), is_fp8_dtype(d[2]),
                   e[1], e[2], l[1], l[2], e[3], acc, FALSE, bv, sv) :
              e \in DataEpilogues(be, d), l \in DataLayouts, acc \in BOOLEAN,
              bv \in 0..MaxB, sv \in DataScales(d) } :
          d \in DataTriples }

\* the next call on the same tensors: direction, accumulation and data may change
FollowUps(c) ==
  { [c EXCEPT !.grad = g, !.accumulate = acc, !.b = bv] :
      g \in IF c.bias \/ c.gelu THEN BOOLEAN ELSE {FALSE},
      acc \in BOOLEAN, bv \in 0..MaxB }

Elems == 0..(DimM * DimN - 1)
BiasLen == IF DimM > DimN THEN DimM ELSE DimN
Fill(S, n) == [i \in S |-> Num(n)]

\* ------------------------------------------------------------------ state
VARIABLES
  backend,   \* the build variant: which cublas_gemm is compiled in
  pc,        \* position of the call in flight
  arg,       \* arguments of the call in flight
  loc,       \* locals of nvte_cublas_gemm / cublas_gemm
  D,         \* device contents of outputD, flattened
  aux,       \* device contents of outputPreGelu
  biasbuf,   \* device contents of inputBias
  scratch,   \* device contents of the hipMalloc'ed D_temp
  live,      \* library objects / device buffers created and not yet released
  ev,        \* device and library operations issued by the call in flight
  err,       \* message of the runtime failure that ended the call, or ""
  calls,     \* calls started
  D_pre,     \* ghost: contents of D when the call in flight started
  hist,      \* ghost: the last completed call
  launch,    \* the kernel launch looked at thread by thread: kernel, sizes, grid, block
  kin,       \* that launch's "in" buffer
  kout,      \* that launch's "out" buffer
  kaux,      \* that launch's "pre_gelu_out" buffer
  ran,       \* blocks of that launch's grid that have run
  touched    \* ghost: the <<element index, thread, iteration>> accesses made so far

\* the state of the kernel launch looked at thread by thread
kvars == <<launch, kin, kout, kaux, ran, touched>>

vars == <<backend, pc, arg, loc, D, aux, biasbuf, scratch, live, ev, err, calls, D_pre, hist,
          launch, kin, kout, kaux, ran, touched>>


ObjKinds == {"handle", "Adesc", "Bdesc", "Cdesc", "Ddesc", "operationDesc",
             "preference", "D_temp", "bias_tmp"}

Loc0 ==
  [m |-> 0, n |-> 0, k |-> 0, lda |-> 0, ldb |-> 0, ldd |-> 0,
   alpha |-> 1, beta |-> 0, useScratch |-> FALSE, D_temp_type |-> "f32_r",
   epilogue |-> "DEFAULT", biasAttached |-> FALSE, auxAttached |-> FALSE,
   AscaleAttached |-> "unset", BscaleAttached |-> "unset",
   returnedResults |-> 0, matmuls |-> 0,
   readbackFailed |-> FALSE,       \* ghost: a device-to-host copy returned an error status
   preact |-> Fill(Elems, 0)]      \* ghost: what the multiply handed to the epilogue

\* no call has completed yet
NoHist == [valid |-> FALSE,
           arg |-> Config(kFloat32, kFloat32, kFloat32, kFloat32, kFloat32, FALSE, FALSE,
                          FALSE, FALSE, TRUE, FALSE, FALSE, FALSE, FALSE, 0, 1),
           x |-> Fill(Elems, 0), readbackFailed |-> FALSE]

\* no kernel launch is being looked at

\* device contents before the first call: element i holds i + 1
Ramp(S) == [i \in S |-> Num(i + 1)]

InitMem ==
  /\ D = Ramp(Elems)
  /\ aux = Ramp(Elems)
  /\ biasbuf = Ramp(0..(BiasLen - 1))
  /\ scratch = Fill(Elems, 0)
  /\ live = [o \in ObjKinds |-> 0]
  /\ ev = <<>>
  /\ err = ""
  /\ loc = Loc0
  /\ hist = NoHist

\* the call-level specifications look at no kernel thread by thread
NoKernel ==
  /\ launch = [kernel |-> "none"]
  /\ kin = <<>>
  /\ kout = <<>>
  /\ kaux = <<>>
  /\ ran = {}
  /\ touched = {}

\* one call, any configuration
Init ==
  /\ backend \in Backends
  /\ arg \in Configs
  /\ pc = "layout"
  /\ calls = 1
  /\ InitMem
  /\ D_pre = D
  /\ NoKernel

\* a sequence of calls
InitCalls ==
  /\ backend \in Backends
  /\ arg \in DataConfigs(backend)
  /\ pc = "layout"
  /\ calls = 1
  /\ InitMem
  /\ D_pre = D
  /\ NoKernel

\* ---------------------------------------------------------------- helpers
Fail(msg) == pc' = "failed" /\ err' = msg
Emit(es) == ev' = ev \o es
Created(objs) == [o \in ObjKinds |-> live[o] + (IF o \in objs THEN 1 ELSE 0)]
Released(l, objs) == [o \in ObjKinds |-> l[o] - (IF o \in objs THEN 1 ELSE 0)]
SeqRange(s) == {s[i] : i \in 1..Len(s)}
Prefix(s, n) == SubSeq(s, 1, n)
Tagged(tag, s) == [i \in 1..Len(s) |-> tag \o s[i]]

use_fp8 == is_fp8_dtype(arg.A_dtype) \/ is_fp8_dtype(arg.B_dtype)

\* a selector table that never looks at the gradient flag
EpilogueOf_forward_only(bias, gelu, grad) ==
  IF bias /\ gelu THEN "GELU_AUX_BIAS"
  ELSE IF bias THEN "BIAS"
  ELSE IF gelu THEN "GELU_AUX"
  ELSE "DEFAULT"

\* the epilogue selector table
EpilogueOf(bias, gelu, grad) ==
  IF bias /\ gelu THEN (IF grad THEN "DGELU_BGRAD" ELSE "GELU_AUX_BIAS")
  ELSE IF bias THEN (IF grad THEN "BGRADB" ELSE "BIAS")
  ELSE IF gelu THEN (IF grad THEN "DGELU" ELSE "GELU_AUX")
  ELSE "DEFAULT"

\* ------------------------------------------------------- nvte_cublas_gemm
\* A further call on the same tensors, after a call that returned normally (a
\* runtime failure is fatal to the caller)
Call(c) ==
  /\ pc = "done"
  /\ calls < MaxCalls
  /\ arg' = c
  /\ calls' = calls + 1
  /\ pc' = "layout"
  /\ loc' = Loc0
  /\ ev' = <<>>
  /\ err' = ""
  /\ D_pre' = D
  /\ hist' = [valid |-> TRUE, arg |-> arg, x |-> loc.preact,
               readbackFailed |-> loc.readbackFailed]
  /\ UNCHANGED <<backend, D, aux, biasbuf, scratch, live>>
  /\ UNCHANGED kvars

\* a layout chain with no refusal: both operands transposed falls into the
\* last branch that sets leading dimensions
LeadingDims_no_refusal(transa, transb, m, n, k) ==
  IF transa /\ ~transb THEN <<k, k, m>>
  ELSE IF ~transa /\ ~transb THEN <<m, k, m>>
  ELSE <<m, n, m>>

\* the leading dimensions <<lda, ldb, ldd>> of a layout, <<>> for the layout
\* that is refused
LeadingDims(transa, transb, m, n, k) ==
  IF transa /\ ~transb THEN <<k, k, m>>
  ELSE IF ~transa /\ ~transb THEN <<m, k, m>>
  ELSE IF ~transa /\ transb THEN <<m, n, m>>
  ELSE <<>>

\* m, n, k from the operand shapes and the leading dimensions; both operands
\* transposed is refused
ComputeLayout ==
  /\ pc = "layout"
  /\ LET ld == LeadingDims(arg.transa, arg.transb, DimM, DimN, DimK)
     IN IF ld # <<>>
          THEN /\ loc' = [loc EXCEPT !.m = DimM, !.n = DimN, !.k = DimK,
                                      !.lda = ld[1], !.ldb = ld[2], !.ldd = ld[3]]
               /\ pc' = "log" /\ UNCHANGED err
          ELSE /\ loc' = [loc EXCEPT !.m = DimM, !.n = DimN, !.k = DimK]
               /\ Fail("TT layout not allowed.")
  /\ UNCHANGED <<backend, arg, D, aux, biasbuf, scratch, live, ev, calls, D_pre, hist>>
  /\ UNCHANGED kvars

\* the statuses hipMemcpy can return for a device pointer: an error for a null
\* pointer, success or an error otherwise (TRUE is success)
MemcpyOk(present) == IF present THEN BOOLEAN ELSE {FALSE}

\* NVTE_LOG_GEMM_CONFIG: two device-to-host copies of the inverse scales, their
\* statuses ignored, then the call proceeds to cublas_gemm
LogConfig ==
  /\ pc = "log"
  /\ IF arg.log
       THEN \E okA \in MemcpyOk(arg.A_scale_inv), okB \in MemcpyOk(arg.B_scale_inv) :
              /\ Emit(<<"memcpyD2H", "memcpyD2H">>)
              /\ loc' = [loc EXCEPT !.readbackFailed = @ \/ ~okA \/ ~okB]
       ELSE UNCHANGED <<ev, loc>>
  /\ pc' = "check_args"
  /\ UNCHANGED <<backend, arg, D, aux, biasbuf, scratch, live, err, calls, D_pre, hist>>
  /\ UNCHANGED kvars

\* ------------------------------------------------------- the multiply itself
\* Contents of the operand tensors: A filled with ones, B[idx] = arg.b * idx
Amat(idx) == IF idx >= 0 THEN 1 ELSE 0
Bmat(idx) == arg.b * idx

\* element (i, l) of op(A) and (l, j) of op(B), column-major with lda / ldb
opA(i, l) == IF arg.transa THEN Amat(l + i * loc.lda) ELSE Amat(i + l * loc.lda)
opB(l, j) == IF arg.transb THEN Bmat(j + l * loc.ldb) ELSE Bmat(l + j * loc.ldb)

RECURSIVE Dot(_, _, _)
Dot(i, j, l) == IF l < 0 THEN 0 ELSE opA(i, l) * opB(l, j) + Dot(i, j, l - 1)

\* op(A) * op(B) at flat index id = i + j * ldd
Product(id) == Dot(id % loc.ldd, id \div loc.ldd, loc.k - 1)

\* the values behind the two inverse-scale pointers
A_scale_inv_val == arg.scale
B_scale_inv_val == arg.scale + 1

\* D = alpha * (A * B) + beta * C, stored with element type "type"
gemm_ex(alpha, beta, C, type) ==
  [id \in Elems |->
     Cast(type, IF beta = 1 THEN Add(Num(alpha * Product(id)), C[id])
                ELSE Num(alpha * Product(id)))]

\* a beta that ignores the accumulate flag
beta_always_one(accumulate) == 1

\* beta = (accumulate) ? one : zero
beta_of(accumulate) == IF accumulate THEN 1 ELSE 0

\* ------------------------------------------------------- elementwise kernels
\* every kernel runs a grid-stride loop over the flat indices below its count

gelu_forward_kernel(T, in, cnt) ==
  [id \in 0..(cnt - 1) |-> Cast(T, gelu_forward(in[id]))]

gelu_backward_kernel(T, dy, pre_gelu_out, cnt) ==
  [id \in 0..(cnt - 1) |-> Cast(T, gelu_backward(pre_gelu_out[id], dy[id]))]

\* a bias-add that indexes the bias by row
add_bias_kernel_by_row(T, in, bias, m, n) ==
  [id \in 0..(m * n - 1) |-> Cast(T, Add(in[id], bias[id \div n]))]

\* m rows of n columns: bias[id % n] is added to in[id]
add_bias_kernel(T, in, bias, m, n) ==
  [id \in 0..(m * n - 1) |-> Cast(T, Add(in[id], bias[id % n]))]

\* an activation kernel that leaves the bias out
add_bias_gelu_kernel_no_bias(T, in, bias, m, n) ==
  [id \in 0..(m * n - 1) |-> Cast(T, gelu_forward(in[id]))]

add_bias_gelu_kernel(T, in, bias, m, n) ==
  [id \in 0..(m * n - 1) |-> Cast(T, gelu_forward(Add(in[id], bias[id % n])))]

identity_kernel(T, in, n) ==
  [id \in 0..(n - 1) |-> Cast(T, in[id])]

RECURSIVE ColSum(_, _, _, _)
ColSum(in, r, n, c) ==
  IF r < 0 THEN Num(0) ELSE Add(ColSum(in, r - 1, n, c), in[r * n + c])

\* hipMemset(out, 0) and then one atomicAdd per block of column c: the sum over
\* the m rows of in[row * n + c]
bias_gradient_kernel(in, m, n) ==
  [c \in 0..(n - 1) |-> ColSum(in, m - 1, n, c)]

\* dst with the entries of src written over it
Store(dst, src) == [i \in DOMAIN dst |-> IF i \in DOMAIN src THEN src[i] ELSE dst[i]]

\* --------------------------------------------------- native fusion executors
\* the checks of the cublasLt variant with the inverse-scale test applied to
\* both operands as soon as either is narrow
cublasLt_checks_both_scales ==
  IF use_fp8 /\ (~arg.A_scale_inv \/ ~arg.B_scale_inv)
    THEN "FP8 input to GEMM requires inverse of scale!"
  ELSE IF use_fp8 /\ arg.gelu /\ is_fp8_dtype(arg.gelu_dtype)
    THEN "fp8 Aux output for gemm + gelu fusion not supported!"
  ELSE IF is_fp8_dtype(arg.D_dtype) /\ arg.accumulate
    THEN "Accumulation mode not supported with FP8 GEMM output!"
  ELSE ""

\* NVTE_CHECKs of the cublasLt variant
cublasLt_checks ==
  IF is_fp8_dtype(arg.A_dtype) /\ ~arg.A_scale_inv
    THEN "FP8 input to GEMM requires inverse of scale!"
  ELSE IF is_fp8_dtype(arg.B_dtype) /\ ~arg.B_scale_inv
    THEN "FP8 input to GEMM requires inverse of scale!"
  ELSE IF use_fp8 /\ arg.gelu /\ is_fp8_dtype(arg.gelu_dtype)
    THEN "fp8 Aux output for gemm + gelu fusion not supported!"
  ELSE IF is_fp8_dtype(arg.D_dtype) /\ arg.accumulate
    THEN "Accumulation mode not supported with FP8 GEMM output!"
  ELSE ""

\* NVTE_CHECKs of the hipblasLt variant
hipblasLt_checks ==
  IF is_fp8_dtype(arg.A_dtype) /\ ~arg.A_scale_inv
    THEN "FP8 input to GEMM requires inverse of scale!"
  ELSE IF is_fp8_dtype(arg.B_dtype) /\ ~arg.B_scale_inv
    THEN "FP8 input to GEMM requires inverse of scale!"
  ELSE IF use_fp8 /\ arg.gelu
    THEN "fp8 gemm + gelu fusion is unavailable right now!"
  ELSE ""

\* NVTE_CHECKs of the rocblas variant
rocblas_checks ==
  IF use_fp8 /\ arg.gelu /\ is_fp8_dtype(arg.gelu_dtype)
    THEN "fp8 Aux output for gemm + gelu fusion not supported!"
  ELSE IF is_fp8_dtype(arg.D_dtype) /\ arg.accumulate
    THEN "Accumulation mode not supported with FP8 GEMM output!"
  ELSE ""

\* entry of cublas_gemm: the argument checks of the variant compiled in, and beta
CheckArgs ==
  /\ pc = "check_args"
  /\ LET msg == CASE backend = "cublasLt" -> cublasLt_checks
                  [] backend = "hipblasLt" -> hipblasLt_checks
                  [] backend = "rocblas" -> rocblas_checks
     IN IF msg # ""
          THEN Fail(msg) /\ UNCHANGED loc
          ELSE /\ loc' = [loc EXCEPT !.beta = beta_of(arg.accumulate)]
               /\ pc' = IF backend = "rocblas" THEN "alpha" ELSE "create_handle"
               /\ UNCHANGED err
  /\ UNCHANGED <<backend, arg, D, aux, biasbuf, scratch, live, ev, calls, D_pre, hist>>
  /\ UNCHANGED kvars

LibError == IF backend = "cublasLt" THEN "CUBLAS Error"
            ELSE IF backend = "hipblasLt" THEN "HIPBLASLT Error" ELSE "ROCBLAS Error"

\* cublasLtCreate / hipblasLtCreate / rocblas_create_handle
CreateHandle ==
  /\ pc = "create_handle"
  /\ \E ok \in BOOLEAN :
       IF ok
         THEN /\ live' = Created({"handle"})
              /\ Emit(<<"create:handle">>)
              /\ pc' = IF backend = "rocblas" THEN "type_check" ELSE "create_descs"
              /\ UNCHANGED err
         ELSE Fail(LibError) /\ UNCHANGED <<live, ev>>
  /\ UNCHANGED <<backend, arg, loc, D, aux, biasbuf, scratch, calls, D_pre, hist>>
  /\ UNCHANGED kvars

\* the descriptors a native variant creates, in program order
DescOrder ==
  IF backend = "cublasLt" THEN <<"Adesc", "Bdesc", "Ddesc", "operationDesc", "Cdesc">>
  ELSE <<"Adesc", "Bdesc", "Ddesc", "operationDesc">>

\* what the library is handed as an operand's scale pointer
ScalePointer(present) == IF ~use_fp8 THEN "unset" ELSE IF present THEN "ptr" ELSE "nullptr"

\* matrix layouts, multiply descriptor, transpose and fp8 attributes.  fault = 0:
\* every library call succeeds; fault = f: the f-th creation fails; fault past
\* the last creation: an attribute call fails
CreateDescriptors ==
  /\ pc = "create_descs"
  /\ \E fault \in 0..(Len(DescOrder) + 1) :
       LET made == IF fault = 0 \/ fault > Len(DescOrder) THEN DescOrder
                   ELSE Prefix(DescOrder, fault - 1)
       IN /\ live' = Created(SeqRange(made))
          /\ Emit(Tagged("create:", made))
          /\ IF fault = 0
               THEN /\ loc' = [loc EXCEPT !.AscaleAttached = ScalePointer(arg.A_scale_inv),
                                           !.BscaleAttached = ScalePointer(arg.B_scale_inv)]
                    /\ pc' = "epilogue_attr"
                    /\ UNCHANGED err
               ELSE Fail(LibError) /\ UNCHANGED loc
  /\ UNCHANGED <<backend, arg, D, aux, biasbuf, scratch, calls, D_pre, hist>>
  /\ UNCHANGED kvars

\* epilogue selector, bias pointer, auxiliary pointer and stride on the descriptor
SetEpilogue ==
  /\ pc = "epilogue_attr"
  /\ \E ok \in BOOLEAN :
       IF ok
         THEN /\ loc' = [loc EXCEPT !.epilogue = EpilogueOf(arg.bias, arg.gelu, arg.grad),
                                     !.biasAttached = arg.bias,
                                     !.auxAttached = arg.gelu]
              /\ pc' = "preference"
              /\ UNCHANGED err
         ELSE Fail(LibError) /\ UNCHANGED loc
  /\ UNCHANGED <<backend, arg, D, aux, biasbuf, scratch, live, ev, calls, D_pre, hist>>
  /\ UNCHANGED kvars

\* cublasLtMatmulPreferenceCreate and its workspace attribute
CreatePreference ==
  /\ pc = "preference"
  /\ \E fault \in 0..2 :
       /\ live' = IF fault = 1 THEN live ELSE Created({"preference"})
       /\ IF fault = 1 THEN UNCHANGED ev ELSE Emit(<<"create:preference">>)
       /\ IF fault = 0 THEN pc' = "heuristic" /\ UNCHANGED err ELSE Fail(LibError)
  /\ UNCHANGED <<backend, arg, loc, D, aux, biasbuf, scratch, calls, D_pre, hist>>
  /\ UNCHANGED kvars

RequestedAlgoCount == 1

\* a heuristic step that goes on to the multiply whatever count comes back
Heuristic_ignores_count ==
  /\ pc = "heuristic"
  /\ \E ok \in BOOLEAN, found \in 0..RequestedAlgoCount :
       IF ~ok THEN Fail(LibError) /\ UNCHANGED loc
       ELSE /\ loc' = [loc EXCEPT !.returnedResults = found]
            /\ pc' = "matmul" /\ UNCHANGED err
  /\ UNCHANGED <<backend, arg, D, aux, biasbuf, scratch, live, ev, calls, D_pre, hist>>
  /\ UNCHANGED kvars

\* cublasLtMatmulAlgoGetHeuristic with one candidate requested
Heuristic ==
  /\ pc = "heuristic"
  /\ \E ok \in BOOLEAN, found \in 0..RequestedAlgoCount :
       IF ~ok THEN Fail(LibError) /\ UNCHANGED loc
       ELSE /\ loc' = [loc EXCEPT !.returnedResults = found]
            /\ IF found = 0 THEN Fail("Unable to find any suitable algorithms")
               ELSE pc' = "matmul" /\ UNCHANGED err
  /\ UNCHANGED <<backend, arg, D, aux, biasbuf, scratch, live, ev, calls, D_pre, hist>>
  /\ UNCHANGED kvars

\* float one = 1.0: the alpha the native variants pass to the multiply
one == 1

\* the scale the library applies for an operand's scale pointer
LibScale(ptr, val) == IF ptr = "ptr" THEN val ELSE 1

\* sum over l of op(B)(l, j): the BGRADB epilogue of the library
RECURSIVE BSum(_, _)
BSum(j, l) == IF l < 0 THEN Num(0) ELSE Add(BSum(j, l - 1), Num(opB(l, j)))

\* cublasLtMatmul / hipblasLtMatmul with alpha = one, C = D: the accumulator
\* and the library's epilogue on it
FusedAcc ==
  gemm_ex(one * LibScale(loc.AscaleAttached, A_scale_inv_val)
              * LibScale(loc.BscaleAttached, B_scale_inv_val),
          loc.beta, D, kFloat32)

FusedD(x) ==
  CASE loc.epilogue = "DEFAULT" -> identity_kernel(arg.D_dtype, x, loc.m * loc.n)
    [] loc.epilogue = "BIAS" -> add_bias_kernel(arg.D_dtype, x, biasbuf, loc.n, loc.m)
    [] loc.epilogue = "GELU_AUX" -> gelu_forward_kernel(arg.D_dtype, x, loc.m * loc.n)
    [] loc.epilogue = "GELU_AUX_BIAS" -> add_bias_gelu_kernel(arg.D_dtype, x, biasbuf, loc.n, loc.m)
    [] loc.epilogue = "DGELU" -> gelu_backward_kernel(arg.D_dtype, x, aux, loc.m * loc.n)
    [] loc.epilogue = "BGRADB" -> identity_kernel(arg.D_dtype, x, loc.m * loc.n)
    [] loc.epilogue = "DGELU_BGRAD" -> gelu_backward_kernel(arg.D_dtype, x, aux, loc.m * loc.n)

FusedAux(x) ==
  CASE loc.epilogue = "GELU_AUX" -> identity_kernel(arg.gelu_dtype, x, loc.m * loc.n)
    [] loc.epilogue = "GELU_AUX_BIAS" -> add_bias_kernel(arg.gelu_dtype, x, biasbuf, loc.n, loc.m)
    [] OTHER -> aux

FusedBias(x) ==
  CASE loc.epilogue = "BGRADB" ->
         Store(biasbuf, [j \in 0..(loc.n - 1) |-> Cast(arg.bias_dtype, BSum(j, loc.k - 1))])
    [] loc.epilogue = "DGELU_BGRAD" ->
         Store(biasbuf, [c \in 0..(loc.m - 1) |->
                           Cast(arg.bias_dtype, bias_gradient_kernel(FusedD(x), loc.n, loc.m)[c])])
    [] OTHER -> biasbuf

\* the one library call that multiplies and applies the epilogue
Matmul ==
  /\ pc = "matmul"
  /\ \E ok \in BOOLEAN :
       IF ok
         THEN /\ D' = FusedD(FusedAcc)
              /\ aux' = FusedAux(FusedAcc)
              /\ biasbuf' = FusedBias(FusedAcc)
              /\ loc' = [loc EXCEPT !.matmuls = @ + 1, !.preact = FusedAcc, !.alpha = one]
              /\ Emit(<<"matmul">>)
              /\ pc' = "destroy"
              /\ UNCHANGED err
         ELSE Fail(LibError) /\ UNCHANGED <<D, aux, biasbuf, loc, ev>>
  /\ UNCHANGED <<backend, arg, scratch, live, calls, D_pre, hist>>
  /\ UNCHANGED kvars

\* the objects the variant destroys before it returns, in program order
DestroyOrder ==
  IF backend = "cublasLt"
    THEN <<"preference", "Ddesc", "Cdesc", "Bdesc", "Adesc", "operationDesc">>
    ELSE <<"preference", "Ddesc", "Bdesc", "Adesc", "operationDesc", "handle">>

\* the Destroy calls at the end of a native call; a failing one throws
DestroyAll ==
  /\ pc = "destroy"
  /\ \E fault \in 0..Len(DestroyOrder) :
       LET gone == IF fault = 0 THEN DestroyOrder ELSE Prefix(DestroyOrder, fault - 1)
       IN /\ live' = Released(live, SeqRange(gone))
          /\ Emit(Tagged("destroy:", gone))
          /\ IF fault = 0 THEN pc' = "done" /\ UNCHANGED err ELSE Fail(LibError)
  /\ UNCHANGED <<backend, arg, loc, D, aux, biasbuf, scratch, calls, D_pre, hist>>
  /\ UNCHANGED kvars

\* ------------------------------------------------ emulated epilogue executor
\* values an uninitialised host scalar / a fresh device allocation may hold
UninitScalars == 0..(MaxScale + 1)
UninitDevice == 0..MaxB

\* an alpha that takes A's inverse scale alone
rocblas_Alpha_one_scale ==
  /\ pc = "alpha"
  /\ IF use_fp8
       THEN \E ga \in UninitScalars, gb \in UninitScalars,
               okA \in MemcpyOk(arg.A_scale_inv), okB \in MemcpyOk(arg.B_scale_inv) :
              LET A_si == IF okA THEN A_scale_inv_val ELSE ga
              IN /\ loc' = [loc EXCEPT !.alpha = A_si,
                                        !.readbackFailed = @ \/ ~okA \/ ~okB]
                 /\ Emit(<<"memcpyD2H", "memcpyD2H">>)
       ELSE UNCHANGED <<loc, ev>>
  /\ pc' = "create_handle"
  /\ UNCHANGED <<backend, arg, D, aux, biasbuf, scratch, live, err, calls, D_pre, hist>>
  /\ UNCHANGED kvars

\* alpha: 1, or the product of the two inverse scales read back from the device
\* (hipMemcpy statuses are not looked at; a null source leaves the host scalar
\* as it was)
rocblas_Alpha ==
  /\ pc = "alpha"
  /\ IF use_fp8
       THEN \E ga \in UninitScalars, gb \in UninitScalars,
               okA \in MemcpyOk(arg.A_scale_inv), okB \in MemcpyOk(arg.B_scale_inv) :
              LET A_si == IF okA THEN A_scale_inv_val ELSE ga
                  B_si == IF okB THEN B_scale_inv_val ELSE gb
              IN /\ loc' = [loc EXCEPT !.alpha = A_si * B_si,
                                        !.readbackFailed = @ \/ ~okA \/ ~okB]
                 /\ Emit(<<"memcpyD2H", "memcpyD2H">>)
       ELSE UNCHANGED <<loc, ev>>
  /\ pc' = "create_handle"
  /\ UNCHANGED <<backend, arg, D, aux, biasbuf, scratch, live, err, calls, D_pre, hist>>
  /\ UNCHANGED kvars

\* the check with the narrow-output triples of its commented-out lines enabled
rocblas_types_ok_narrow_output(At, Bt, Dt) ==
  \/ (At = "f16_r" /\ Bt = "f16_r" /\ Dt = "f16_r")
  \/ (At = "f32_r" /\ Bt = "f32_r" /\ Dt = "f32_r")
  \/ (At = "f8_r" /\ Bt = "f8_r" /\ Dt \in {"f32_r", "f16_r", "f8_r"})
  \/ (At = "f8_r" /\ Bt = "bf8_r" /\ Dt \in {"f32_r", "f16_r", "bf8_r"})
  \/ (At = "bf8_r" /\ Bt = "f8_r" /\ Dt \in {"f32_r", "f16_r", "bf8_r"})

\* the (A, B, D) type tags the rocblas variant multiplies
rocblas_types_ok(At, Bt, Dt) ==
  \/ (At = "f16_r" /\ Bt = "f16_r" /\ Dt = "f16_r")
  \/ (At = "f32_r" /\ Bt = "f32_r" /\ Dt = "f32_r")
  \/ (At = "f8_r" /\ Bt = "f8_r" /\ Dt = "f32_r")
  \/ (At = "f8_r" /\ Bt = "f8_r" /\ Dt = "f16_r")
  \/ (At = "f8_r" /\ Bt = "bf8_r" /\ Dt = "f32_r")
  \/ (At = "f8_r" /\ Bt = "bf8_r" /\ Dt = "f16_r")
  \/ (At = "bf8_r" /\ Bt = "f8_r" /\ Dt = "f32_r")
  \/ (At = "bf8_r" /\ Bt = "f8_r" /\ Dt = "f16_r")

rocblas_TypeCheck ==
  /\ pc = "type_check"
  /\ IF rocblas_types_ok(get_cuda_dtype(arg.A_dtype), get_cuda_dtype(arg.B_dtype),
                         get_cuda_dtype(arg.D_dtype))
       THEN pc' = "alloc" /\ UNCHANGED err
       ELSE Fail("Only the following combinations of data types are enabled now!")
  /\ UNCHANGED <<backend, arg, loc, D, aux, biasbuf, scratch, live, ev, calls, D_pre, hist>>
  /\ UNCHANGED kvars

\* a scratch buffer for every epilogue, whatever D's element type
NeedsScratch_any_epilogue(bias, gelu, Dt) == bias \/ gelu

\* whether the multiply goes to a freshly allocated fp32 buffer instead of D
NeedsScratch(bias, gelu, Dt) == (bias \/ gelu) /\ Dt \in {"f16_r", "f8_r", "bf8_r"}

\* a tag that is fp16 only for fp16 operands
D_temp_type_of_fp16_inputs(bias, gelu, At, Bt, Dt) ==
  IF ~(bias \/ gelu) /\ At = "f16_r" /\ Bt = "f16_r" /\ Dt = "f16_r" THEN "f16_r"
  ELSE "f32_r"

\* the element type tag the multiply is given for D_temp
D_temp_type_of(bias, gelu, At, Bt, Dt) ==
  IF ~(bias \/ gelu) /\ At = "f16_r" /\ Bt = "f16_r" /\ Dt = "f16_r" THEN "f16_r"
  ELSE IF ~(bias \/ gelu) /\ At \in {"f8_r", "bf8_r"} /\ Bt \in {"f8_r", "bf8_r"} /\ Dt = "f16_r"
    THEN "f16_r"
  ELSE "f32_r"

rocblas_AllocDtemp ==
  /\ pc = "alloc"
  /\ LET need == NeedsScratch(arg.bias, arg.gelu, get_cuda_dtype(arg.D_dtype))
         ty == D_temp_type_of(arg.bias, arg.gelu, get_cuda_dtype(arg.A_dtype),
                              get_cuda_dtype(arg.B_dtype), get_cuda_dtype(arg.D_dtype))
     IN IF need
          THEN \E ok \in BOOLEAN, g \in UninitDevice :
                 IF ok
                   THEN /\ scratch' = Fill(Elems, g)
                        /\ live' = Created({"D_temp"})
                        /\ Emit(<<"hipMalloc:D_temp">>)
                        /\ loc' = [loc EXCEPT !.useScratch = TRUE, !.D_temp_type = ty]
                        /\ pc' = "gemm" /\ UNCHANGED err
                   ELSE Fail("CUDA Error") /\ UNCHANGED <<scratch, live, ev, loc>>
          ELSE /\ loc' = [loc EXCEPT !.useScratch = FALSE, !.D_temp_type = ty]
               /\ pc' = "gemm"
               /\ UNCHANGED <<scratch, live, ev, err>>
  /\ UNCHANGED <<backend, arg, D, aux, biasbuf, calls, D_pre, hist>>
  /\ UNCHANGED kvars

\* the buffer D_temp points to
D_temp == IF loc.useScratch THEN scratch ELSE D

\* rocblas_gemm_ex / rocblas_gemm_ex3 with C = D = D_temp
rocblas_Gemm ==
  /\ pc = "gemm"
  /\ \E ok \in BOOLEAN :
       IF ok
         THEN LET r == gemm_ex(loc.alpha, loc.beta, D_temp,
                               get_transformer_engine_dtype(loc.D_temp_type))
              IN /\ IF loc.useScratch THEN scratch' = r /\ UNCHANGED D
                                      ELSE D' = r /\ UNCHANGED scratch
                 /\ loc' = [loc EXCEPT !.matmuls = @ + 1, !.preact = r]
                 /\ Emit(<<"gemm">>)
                 /\ pc' = "destroy_handle" /\ UNCHANGED err
         ELSE Fail(LibError) /\ UNCHANGED <<D, scratch, loc, ev>>
  /\ UNCHANGED <<backend, arg, aux, biasbuf, live, calls, D_pre, hist>>
  /\ UNCHANGED kvars

rocblas_DestroyHandle ==
  /\ pc = "destroy_handle"
  /\ \E ok \in BOOLEAN :
       IF ok
         THEN /\ live' = Released(live, {"handle"})
              /\ Emit(<<"destroy:handle">>)
              /\ pc' = IF arg.bias \/ arg.gelu THEN "epilogue" ELSE "free"
              /\ UNCHANGED err
         ELSE Fail(LibError) /\ UNCHANGED <<live, ev>>
  /\ UNCHANGED <<backend, arg, loc, D, aux, biasbuf, scratch, calls, D_pre, hist>>
  /\ UNCHANGED kvars

\* which device-runtime call of an epilogue branch returns a failure status
Faults == {"none", "hipMalloc", "hipMemset", "hipDeviceSynchronize", "hipFree"}

NotInstantiated == "FP8 type not instantiated"

\* The bias-gradient tail shared by the two gradient branches: bias_tmp (fp32
\* staging, allocated when the bias tensor is not fp32), bias_gradient_kernelLauncher
\* over "rows" rows of "cols" columns of "in" (element type in_dtype), and the
\* downcast into bias_ptr.  mallocFirst: the allocation precedes the type switch
\* of the reduction.  Result: the failure message (or ""), the bias tensor, the
\* operations issued and whether bias_tmp is still allocated.
BiasGradSteps(in, rows, cols, in_dtype, fault) ==
  LET staged == get_cuda_dtype(arg.bias_dtype) # "f32_r"
      sums == bias_gradient_kernel(in, rows, cols)
      evMalloc == IF staged THEN <<"hipMalloc:bias_tmp">> ELSE <<>>
      held == IF staged THEN 1 ELSE 0
  IN IF staged /\ fault = "hipMalloc"
       THEN [err |-> "CUDA Error", bias |-> biasbuf, ev |-> <<>>, tmp |-> 0]
     ELSE IF ~TypeSwitchOk(in_dtype)
       THEN [err |-> NotInstantiated, bias |-> biasbuf, ev |-> evMalloc, tmp |-> held]
     ELSE IF fault = "hipMemset"
       THEN [err |-> "CUDA Error", bias |-> biasbuf, ev |-> evMalloc, tmp |-> held]
     ELSE IF ~staged
       THEN [err |-> "", bias |-> Store(biasbuf, sums),
             ev |-> <<"hipMemset", "kernel:bias_gradient">>, tmp |-> 0]
     ELSE IF ~TypeSwitchOk(arg.bias_dtype)
       THEN [err |-> NotInstantiated, bias |-> biasbuf,
             ev |-> evMalloc \o <<"hipMemset", "kernel:bias_gradient">>, tmp |-> 1]
     ELSE LET down == Store(biasbuf, identity_kernel(arg.bias_dtype, sums, cols))
              evs == evMalloc \o <<"hipMemset", "kernel:bias_gradient", "kernel:identity">>
          IN IF fault = "hipDeviceSynchronize"
               THEN [err |-> "CUDA Error", bias |-> down, ev |-> evs, tmp |-> 1]
             ELSE IF fault = "hipFree"
               THEN [err |-> "CUDA Error", bias |-> down,
                     ev |-> evs \o <<"hipDeviceSynchronize">>, tmp |-> 1]
             ELSE [err |-> "", bias |-> down,
                   ev |-> evs \o <<"hipDeviceSynchronize", "hipFree:bias_tmp">>, tmp |-> 0]

\* a gradient branch that reduces the upstream gradient D_temp, not D
rocblas_DGELU_BGRAD_reduces_D_temp ==
  /\ pc = "epilogue" /\ arg.bias /\ arg.gelu /\ arg.grad
  /\ IF ~TypeSwitchOk(arg.D_dtype)
       THEN Fail(NotInstantiated) /\ UNCHANGED <<D, biasbuf, live, ev>>
       ELSE \E fault \in Faults :
              LET batch_size == loc.n
                  input_dim == loc.m
                  Dn == gelu_backward_kernel(arg.D_dtype, D_temp, aux, batch_size * input_dim)
                  r == BiasGradSteps(D_temp, batch_size, input_dim, arg.D_dtype, fault)
              IN /\ D' = Dn
                 /\ biasbuf' = r.bias
                 /\ live' = [live EXCEPT !["bias_tmp"] = @ + r.tmp]
                 /\ Emit(<<"kernel:gelu_backward">> \o r.ev)
                 /\ IF r.err = "" THEN pc' = "free" /\ UNCHANGED err ELSE Fail(r.err)
  /\ UNCHANGED <<backend, arg, loc, aux, scratch, calls, D_pre, hist>>
  /\ UNCHANGED kvars

\* bias and gelu, gradient: gelu gradient of D_temp into D, then the bias
\* gradient reduced from D
rocblas_DGELU_BGRAD ==
  /\ pc = "epilogue" /\ arg.bias /\ arg.gelu /\ arg.grad
  /\ IF ~TypeSwitchOk(arg.D_dtype)
       THEN Fail(NotInstantiated) /\ UNCHANGED <<D, biasbuf, live, ev>>
       ELSE \E fault \in Faults :
              LET batch_size == loc.n
                  input_dim == loc.m
                  Dn == gelu_backward_kernel(arg.D_dtype, D_temp, aux, batch_size * input_dim)
                  r == BiasGradSteps(Dn, batch_size, input_dim, arg.D_dtype, fault)
              IN /\ D' = Dn
                 /\ biasbuf' = r.bias
                 /\ live' = [live EXCEPT !["bias_tmp"] = @ + r.tmp]
                 /\ Emit(<<"kernel:gelu_backward">> \o r.ev)
                 /\ IF r.err = "" THEN pc' = "free" /\ UNCHANGED err ELSE Fail(r.err)
  /\ UNCHANGED <<backend, arg, loc, aux, scratch, calls, D_pre, hist>>
  /\ UNCHANGED kvars

\* bias and gelu, forward: D_temp + bias into pre_gelu_out, its gelu into D
rocblas_GELU_AUX_BIAS ==
  /\ pc = "epilogue" /\ arg.bias /\ arg.gelu /\ ~arg.grad
  /\ IF ~TypeSwitchOk(arg.D_dtype) \/ ~TypeSwitchOk(arg.bias_dtype)
       THEN Fail(NotInstantiated) /\ UNCHANGED <<D, aux, ev>>
       ELSE LET batch_size == loc.n
                output_dim == loc.m
            IN /\ aux' = add_bias_kernel(arg.D_dtype, D_temp, biasbuf, batch_size, output_dim)
               /\ D' = add_bias_gelu_kernel(arg.D_dtype, D_temp, biasbuf, batch_size, output_dim)
               /\ Emit(<<"kernel:add_bias_gelu">>)
               /\ pc' = "free" /\ UNCHANGED err
  /\ UNCHANGED <<backend, arg, loc, biasbuf, scratch, live, calls, D_pre, hist>>
  /\ UNCHANGED kvars

\* a reduction input taken from D_temp instead of B
Bbuf_from_D_temp ==
  [idx \in 0..(loc.k * loc.n - 1) |-> IF idx \in DOMAIN D_temp THEN D_temp[idx] ELSE Num(0)]

\* the contents of B as the reduction reads them
Bbuf == [idx \in 0..(loc.k * loc.n - 1) |-> Num(Bmat(idx))]

\* bias only, gradient: the bias gradient reduced from B, and the downcast of
\* D_temp into an fp16 D
rocblas_BGRADB ==
  /\ pc = "epilogue" /\ arg.bias /\ ~arg.gelu /\ arg.grad
  /\ \E fault \in Faults :
       LET batch_size == loc.k
           input_dim == loc.m
           output_dim == loc.n
           r == BiasGradSteps(Bbuf, batch_size, output_dim, arg.B_dtype, fault)
           copy == r.err = "" /\ get_cuda_dtype(arg.D_dtype) = "f16_r"
       IN /\ biasbuf' = r.bias
          /\ live' = [live EXCEPT !["bias_tmp"] = @ + r.tmp]
          /\ D' = IF copy THEN identity_kernel(arg.D_dtype, D_temp, input_dim * output_dim) ELSE D
          /\ Emit(r.ev \o (IF copy THEN <<"kernel:identity">> ELSE <<>>))
          /\ IF r.err = "" THEN pc' = "free" /\ UNCHANGED err ELSE Fail(r.err)
  /\ UNCHANGED <<backend, arg, loc, aux, scratch, calls, D_pre, hist>>
  /\ UNCHANGED kvars

\* bias only, forward: D_temp + bias into D
rocblas_BIAS ==
  /\ pc = "epilogue" /\ arg.bias /\ ~arg.gelu /\ ~arg.grad
  /\ IF ~TypeSwitchOk(arg.D_dtype) \/ ~TypeSwitchOk(arg.bias_dtype)
       THEN Fail(NotInstantiated) /\ UNCHANGED <<D, ev>>
       ELSE LET batch_size == loc.n
                output_dim == loc.m
            IN /\ D' = add_bias_kernel(arg.D_dtype, D_temp, biasbuf, batch_size, output_dim)
               /\ Emit(<<"kernel:add_bias">>)
               /\ pc' = "free" /\ UNCHANGED err
  /\ UNCHANGED <<backend, arg, loc, aux, biasbuf, scratch, live, calls, D_pre, hist>>
  /\ UNCHANGED kvars

\* gelu only, gradient: gelu gradient of D_temp at pre_gelu_out into D
rocblas_DGELU ==
  /\ pc = "epilogue" /\ ~arg.bias /\ arg.gelu /\ arg.grad
  /\ IF ~TypeSwitchOk(arg.D_dtype)
       THEN Fail(NotInstantiated) /\ UNCHANGED <<D, ev>>
       ELSE LET batch_size == loc.n
                input_dim == loc.m
            IN /\ D' = gelu_backward_kernel(arg.D_dtype, D_temp, aux, batch_size * input_dim)
               /\ Emit(<<"kernel:gelu_backward">>)
               /\ pc' = "free" /\ UNCHANGED err
  /\ UNCHANGED <<backend, arg, loc, aux, biasbuf, scratch, live, calls, D_pre, hist>>
  /\ UNCHANGED kvars

\* gelu only, forward: the gelu kernel from D_temp into D, and after it the
\* identity kernel from D_temp into pre_gelu_out
rocblas_GELU_AUX ==
  /\ pc = "epilogue" /\ ~arg.bias /\ arg.gelu /\ ~arg.grad
  /\ IF ~TypeSwitchOk(arg.D_dtype)
       THEN Fail(NotInstantiated) /\ UNCHANGED <<D, aux, ev>>
       ELSE LET batch_size == loc.n
                output_dim == loc.m
                Dn == gelu_forward_kernel(arg.D_dtype, D_temp, batch_size * output_dim)
                D_temp_after == IF loc.useScratch THEN scratch ELSE Dn
            IN /\ D' = Dn
               /\ aux' = identity_kernel(arg.D_dtype, D_temp_after, batch_size * output_dim)
               /\ Emit(<<"kernel:gelu_forward", "kernel:identity">>)
               /\ pc' = "free" /\ UNCHANGED err
  /\ UNCHANGED <<backend, arg, loc, biasbuf, scratch, live, calls, D_pre, hist>>
  /\ UNCHANGED kvars

\* hipFree(D_temp) when it was allocated, and return
rocblas_FreeDtemp ==
  /\ pc = "free"
  /\ IF NeedsScratch(arg.bias, arg.gelu, get_cuda_dtype(arg.D_dtype))
       THEN \E ok \in BOOLEAN :
              IF ok
                THEN /\ live' = Released(live, {"D_temp"})
                     /\ scratch' = Fill(Elems, 0)
                     /\ Emit(<<"hipFree:D_temp">>)
                     /\ pc' = "done" /\ UNCHANGED err
                ELSE Fail("CUDA Error") /\ UNCHANGED <<live, scratch, ev>>
       ELSE pc' = "done" /\ UNCHANGED <<live, scratch, ev, err>>
  /\ UNCHANGED <<backend, arg, loc, D, aux, biasbuf, calls, D_pre, hist>>
  /\ UNCHANGED kvars

\* ---------------------------------------- the reduction kernel, block by block
\* ceil(float(a) / b)
CeilDiv(a, b) == (a + b - 1) \div b

\* the row orders tried: in[r, c] = r, rotated and reversed
RowOrders(R) ==
  {[r \in 0..(R - 1) |-> (r + s) % R] : s \in 0..(R - 1)}
    \cup {[r \in 0..(R - 1) |-> (R - 1 - r + s) % R] : s \in 0..(R - 1)}

\* bias_gradient_kernelLauncher<Tin>(in, out, m, n, 0) instantiated with
\* THREADS_PER_BLOCK = T, about to call hipMemset; "uninit" is what the
\* destination and an unassigned register hold
ReduceLaunch(m, n, T, uninit) ==
  [kernel |-> "bias_gradient", m |-> m, n |-> n, THREADS_PER_BLOCK |-> T,
   block |-> T, grid |-> CeilDiv(m, T) * n, uninit |-> uninit, at |-> "hipMemset"]

InitReduce ==
  /\ backend = "rocblas"
  /\ arg = NoHist.arg
  /\ pc = "epilogue"
  /\ calls = 1
  /\ InitMem
  /\ D_pre = D
  /\ \E m \in 1..MaxRows, n \in 1..MaxCols, T \in 1..MaxThreads, g \in UninitDevice :
       /\ launch = ReduceLaunch(m, n, T, g)
       /\ \E order \in RowOrders(m) : kin = [idx \in 0..(m * n - 1) |-> Num(order[idx \div n])]
       /\ kout = [c \in 0..(n - 1) |-> Num(g)]
  /\ kaux = <<>>
  /\ ran = {}
  /\ touched = {}

\* the call-level state, which a kernel launch leaves alone
callvars == <<backend, pc, arg, loc, D, aux, biasbuf, scratch, live, ev, err, calls, D_pre, hist>>

\* a launcher whose memset leaves the destination as it was
bias_gradient_hipMemset_no_zero ==
  /\ launch.kernel = "bias_gradient" /\ launch.at = "hipMemset"
  /\ \E ok \in BOOLEAN :
       launch' = [launch EXCEPT !.at = IF ok THEN "kernel" ELSE "failed"]
  /\ UNCHANGED <<kin, kout, kaux, ran, touched>>
  /\ UNCHANGED callvars

\* NVTE_CHECK_CUDA( hipMemset(out, 0, n*sizeof(float)) ), then the launch
bias_gradient_hipMemset ==
  /\ launch.kernel = "bias_gradient" /\ launch.at = "hipMemset"
  /\ \E ok \in BOOLEAN :
       IF ok
         THEN /\ kout' = [c \in 0..(launch.n - 1) |-> Num(0)]
              /\ launch' = [launch EXCEPT !.at = "kernel"]
         ELSE /\ launch' = [launch EXCEPT !.at = "failed"]
              /\ UNCHANGED kout
  /\ UNCHANGED <<kin, kaux, ran, touched>>
  /\ UNCHANGED callvars

BLOCKS_PER_COL == CeilDiv(launch.m, launch.THREADS_PER_BLOCK)
THREADS_PER_COL == BLOCKS_PER_COL * launch.THREADS_PER_BLOCK

\* idx, col_idx and row_idx of thread threadIdx of block blockIdx
idx_of(blockIdx, threadIdx) == threadIdx + blockIdx * launch.block
col_idx(blockIdx, threadIdx) == idx_of(blockIdx, threadIdx) \div THREADS_PER_COL
row_idx(blockIdx, threadIdx) == idx_of(blockIdx, threadIdx) % THREADS_PER_COL

\* thread_data: assigned only when row_idx < m
thread_data(blockIdx, threadIdx) ==
  IF row_idx(blockIdx, threadIdx) < launch.m
    THEN kin[row_idx(blockIdx, threadIdx) * launch.n + col_idx(blockIdx, threadIdx)]
    ELSE Num(launch.uninit)

\* BlockReduce(...).Sum(thread_data, num_valid): the sum of the thread_data of
\* the block's first num_valid threads, returned to thread 0
RECURSIVE BlockReduceSum(_, _)
BlockReduceSum(blockIdx, num_valid) ==
  IF num_valid <= 0 THEN Num(0)
  ELSE Add(BlockReduceSum(blockIdx, num_valid - 1), thread_data(blockIdx, num_valid - 1))

\* a kernel whose every block adds up its whole tile
local_sum_whole_tile(blockIdx) == BlockReduceSum(blockIdx, launch.THREADS_PER_BLOCK)

\* local_sum of thread 0: the whole tile, or the m - (BLOCKS_PER_COL-1) *
\* THREADS_PER_BLOCK valid items of a column's last block
local_sum(blockIdx) ==
  IF row_idx(blockIdx, 0) < (BLOCKS_PER_COL - 1) * launch.THREADS_PER_BLOCK
    THEN BlockReduceSum(blockIdx, launch.THREADS_PER_BLOCK)
    ELSE BlockReduceSum(blockIdx, launch.m - (BLOCKS_PER_COL - 1) * launch.THREADS_PER_BLOCK)

\* one block of the grid: atomicAdd(&out[col_idx], local_sum) by its thread 0
bias_gradient_block(blockIdx) ==
  /\ launch.kernel = "bias_gradient" /\ launch.at = "kernel"
  /\ blockIdx \in (0..(launch.grid - 1)) \ ran
  /\ kout' = [kout EXCEPT ![col_idx(blockIdx, 0)] = Add(@, local_sum(blockIdx))]
  /\ ran' = ran \cup {blockIdx}
  /\ UNCHANGED <<launch, kin, kaux, touched>>
  /\ UNCHANGED callvars

\* ------------------------------------- the elementwise kernels, block by block
ElementwiseKernels == {"gelu_forward", "gelu_backward", "add_bias", "add_bias_gelu", "identity"}

Min(a, b) == IF a < b THEN a ELSE b

\* the element count, grid and block a launcher computes for (m, n) when blocks
\* hold at most blockLimit threads and the activation launchers cap the grid at
\* gridLimit blocks; the identity launcher is given the element count m * n
launcher_geometry(kernel, m, n, blockLimit, gridLimit) ==
  CASE kernel \in {"gelu_forward", "gelu_backward"} ->
         [count |-> m * n, grid |-> Min(m * CeilDiv(n, blockLimit), gridLimit),
          block |-> Min(n, blockLimit)]
    [] kernel \in {"add_bias", "add_bias_gelu"} ->
         [count |-> m * n, grid |-> CeilDiv(m * n, blockLimit), block |-> blockLimit]
    [] kernel = "identity" ->
         [count |-> m * n, grid |-> CeilDiv(m * n, blockLimit), block |-> blockLimit]

\* the geometry under the model's block and grid limits
LaunchGeometry(kernel, m, n) == launcher_geometry(kernel, m, n, BlockLimit, GridLimit)

\* a launch of an elementwise kernel with output element type T; inplace: out
\* is the buffer in
ElementwiseLaunch(kernel, m, n, T, inplace) ==
  [kernel |-> kernel, m |-> m, n |-> n, T |-> T, inplace |-> inplace,
   count |-> LaunchGeometry(kernel, m, n).count,
   grid |-> LaunchGeometry(kernel, m, n).grid,
   block |-> LaunchGeometry(kernel, m, n).block, at |-> "kernel"]

\* the bias vector of a launch
kbias == [c \in 0..(launch.n - 1) |-> Num(c + 1)]

\* in holds consecutive integers from x0 on; out aliases in (fp32 only) or is a
\* separate buffer
InitElementwise ==
  /\ backend = "rocblas"
  /\ arg = NoHist.arg
  /\ pc = "epilogue"
  /\ calls = 1
  /\ InitMem
  /\ D_pre = D
  /\ \E kernel \in ElementwiseKernels, m \in 1..MaxRows, n \in 1..MaxCols,
        T \in {kFloat32, kFloat16}, inplace \in BOOLEAN,
        x0 \in (0 - MaxB)..MaxB, g \in UninitDevice :
       /\ inplace => T = kFloat32
       /\ launch = ElementwiseLaunch(kernel, m, n, T, inplace)
       /\ kin = [id \in 0..(m * n - 1) |-> Num(id + x0)]
       /\ kout = IF inplace THEN kin ELSE [id \in 0..(m * n - 1) |-> Num(g)]
       /\ kaux = [id \in 0..(m * n - 1) |-> Num(id + 1)]
  /\ ran = {}
  /\ touched = {}

\* the largest int
INT_MAX == 2147483647

\* id += blockDim.x * gridDim.x with int id: the sum is formed in unsigned
\* arithmetic and converted back to int, so a sum above INT_MAX comes back
\* lowered by 2^32
AddStride(id, stride) ==
  IF id > INT_MAX - stride THEN ((id - INT_MAX) + (stride - INT_MAX)) - 2 ELSE id + stride

\* for (id = blockIdx.x * blockDim.x + threadIdx.x; id < count;
\*      id += blockDim.x * gridDim.x): the indices a thread visits, in order
RECURSIVE ThreadIds(_, _, _)
ThreadIds(id, stride, count) ==
  IF id >= count THEN <<>> ELSE <<id>> \o ThreadIds(AddStride(id, stride), stride, count)

\* the accesses <<id, thread, iteration>> of the threads threadIdx.. of a block
RECURSIVE BlockAccesses(_, _)
BlockAccesses(blockIdx, threadIdx) ==
  IF threadIdx >= launch.block THEN <<>>
  ELSE LET first == blockIdx * launch.block + threadIdx
           ids == ThreadIds(first, launch.block * launch.grid, launch.count)
       IN [j \in 1..Len(ids) |-> <<ids[j], first, j>>] \o BlockAccesses(blockIdx, threadIdx + 1)

\* what the kernel stores in out[id] and in pre_gelu_out[id] when it reads src
ElemOut(src, id) ==
  CASE launch.kernel = "gelu_forward" -> gelu_forward_kernel(launch.T, src, launch.count)[id]
    [] launch.kernel = "gelu_backward" ->
         gelu_backward_kernel(launch.T, src, kaux, launch.count)[id]
    [] launch.kernel = "add_bias" -> add_bias_kernel(launch.T, src, kbias, launch.m, launch.n)[id]
    [] launch.kernel = "add_bias_gelu" ->
         add_bias_gelu_kernel(launch.T, src, kbias, launch.m, launch.n)[id]
    [] launch.kernel = "identity" -> identity_kernel(launch.T, src, launch.count)[id]

ElemAux(src, id, was) ==
  IF launch.kernel = "add_bias_gelu"
    THEN add_bias_kernel(launch.T, src, kbias, launch.m, launch.n)[id]
    ELSE was

\* the buffers after the accesses acc[i..] have been made, one after the other
RECURSIVE RunAccesses(_, _, _, _)
RunAccesses(out, auxb, acc, i) ==
  IF i > Len(acc) THEN [out |-> out, aux |-> auxb]
  ELSE LET id == acc[i][1]
           src == IF launch.inplace THEN out ELSE kin
       IN RunAccesses([out EXCEPT ![id] = ElemOut(src, id)],
                      [auxb EXCEPT ![id] = ElemAux(src, id, @)], acc, i + 1)

\* one block of an elementwise launch runs its threads' loops
elementwise_block(blockIdx) ==
  /\ launch.kernel \in ElementwiseKernels /\ launch.at = "kernel"
  /\ blockIdx \in (0..(launch.grid - 1)) \ ran
  /\ LET acc == BlockAccesses(blockIdx, 0)
         r == RunAccesses(kout, kaux, acc, 1)
     IN /\ kout' = r.out
        /\ kaux' = r.aux
        /\ touched' = touched \cup {acc[i] : i \in 1..Len(acc)}
  /\ ran' = ran \cup {blockIdx}
  /\ UNCHANGED <<launch, kin>>
  /\ UNCHANGED callvars

\* ------------------------------------------------- one thread, 32-bit indices
\* threads per block and the grid cap of the activation launchers
kBlock == 1024
kGridCap == 65536

\* shapes (m, n) with m * n <= INT_MAX: a single element, a few elements, a
\* few rows, more rows than the grid cap, more than 2^30 elements, and nearly
\* 2^31 elements
Shapes ==
  {<<1, 1>>, <<2, 3>>, <<3, 2048>>, <<70000, 1024>>, <<1048577, 1024>>, <<2097151, 1024>>}

\* a launcher called with one of the shapes; the first or the last thread of
\* the first or the last block is followed
InitThread ==
  /\ backend = "rocblas"
  /\ arg = NoHist.arg
  /\ pc = "epilogue"
  /\ calls = 1
  /\ InitMem
  /\ D_pre = D
  /\ \E kernel \in ElementwiseKernels, shape \in Shapes :
       LET g == launcher_geometry(kernel, shape[1], shape[2], kBlock, kGridCap)
       IN \E blockIdx \in {0, g.grid - 1}, threadIdx \in {0, g.block - 1} :
            launch = [kernel |-> kernel, m |-> shape[1], n |-> shape[2], count |-> g.count,
                      grid |-> g.grid, block |-> g.block,
                      first |-> blockIdx * g.block + threadIdx,
                      id |-> blockIdx * g.block + threadIdx, iter |-> 1, at |-> "loop"]
  /\ kin = <<>> /\ kout = <<>> /\ kaux = <<>>
  /\ ran = {}
  /\ touched = {}

\* one evaluation of the loop condition id < m * n: the body accesses in[id]
\* and out[id] and the stride is added, or the loop is left
grid_stride_loop ==
  /\ launch.kernel \in ElementwiseKernels /\ launch.at = "loop"
  /\ launch.iter <= MaxIter
  /\ IF launch.id < launch.count
       THEN /\ touched' = touched \cup {<<launch.id, launch.first, launch.iter>>}
            /\ launch' = [launch EXCEPT !.id = AddStride(@, launch.block * launch.grid),
                                        !.iter = @ + 1]
       ELSE /\ launch' = [launch EXCEPT !.at = "exit"]
            /\ UNCHANGED touched
  /\ UNCHANGED <<kin, kout, kaux, ran>>
  /\ UNCHANGED callvars

\* ------------------------------------------------------------ specifications
Steps ==
  \/ ComputeLayout
  \/ LogConfig
  \/ CheckArgs
  \/ CreateHandle
  \/ CreateDescriptors
  \/ SetEpilogue
  \/ CreatePreference
  \/ Heuristic
  \/ Matmul
  \/ DestroyAll
  \/ rocblas_Alpha
  \/ rocblas_TypeCheck
  \/ rocblas_AllocDtemp
  \/ rocblas_Gemm
  \/ rocblas_DestroyHandle
  \/ rocblas_DGELU_BGRAD
  \/ rocblas_GELU_AUX_BIAS
  \/ rocblas_BGRADB
  \/ rocblas_BIAS
  \/ rocblas_DGELU
  \/ rocblas_GELU_AUX
  \/ rocblas_FreeDtemp

Next == Steps

NextCall == \E c \in FollowUps(arg) : Call(c)

NextCalls == NextCall \/ Steps

\* one call under every configuration
Spec == Init /\ [][Next]_vars

\* sequences of calls on the same tensors
SpecCalls == InitCalls /\ [][NextCalls]_vars

NextReduce ==
  \/ bias_gradient_hipMemset
  \/ \E blockIdx \in 0..(MaxRows * MaxCols - 1) : bias_gradient_block(blockIdx)

\* one launch of the reduction, its blocks in every order
SpecReduce == InitReduce /\ [][NextReduce]_vars

NextElementwise ==
  \E blockIdx \in 0..(MaxRows * MaxCols - 1) : elementwise_block(blockIdx)

\* one launch of an elementwise kernel, its blocks in every order
SpecElementwise == InitElementwise /\ [][NextElementwise]_vars

NextThread == grid_stride_loop

\* the loop of one thread of an elementwise launch with the launchers' limits
SpecThread == InitThread /\ [][NextThread]_vars


\* ---------------------------------------------------------------------------
\* Properties of the emulated epilogue
\* ---------------------------------------------------------------------------

\* the epilogue the current call runs
CallEpilogue == EpilogueOf(arg.bias, arg.gelu, arg.grad)

\* the scale the multiply applies to op(A) * op(B): the product of the two
\* inverse scales for narrow inputs, one otherwise
InputScale == IF use_fp8 THEN A_scale_inv_val * B_scale_inv_val ELSE 1

\* C1: in the emulated backend, after a forward call with the activation only
\* (aux present, no bias), aux holds the pre-activation value of every element
\* and D holds the activation of that same value, whether D is fp32 (multiply
\* in place) or fp16 (multiply into scratch).
C1_AuxIsPreActivation ==
  (backend = "rocblas" /\ pc = "done" /\ CallEpilogue = "GELU_AUX")
    => \A i \in Elems :
         /\ aux[i] = Cast(arg.D_dtype, loc.preact[i])
         /\ D[i] = Cast(arg.D_dtype, gelu_forward(loc.preact[i]))

\* the previous call was the activation-only forward call of the emulated
\* backend on the same output type, and this one is the activation gradient
RoundTrip ==
  /\ backend = "rocblas" /\ pc = "done" /\ hist.valid
  /\ EpilogueOf(hist.arg.bias, hist.arg.gelu, hist.arg.grad) = "GELU_AUX"
  /\ CallEpilogue = "DGELU"
  /\ hist.arg.D_dtype = arg.D_dtype

\* C2: forward call, then gradient call over the same aux buffer: wherever the
\* upstream gradient is 1, D holds the derivative of the activation at the
\* pre-activation value the forward call computed, for fp32 and fp16 outputs.
C2_RoundTripDerivative ==
  RoundTrip
    => \A i \in Elems :
         loc.preact[i] = Num(1)
           => D[i] = Cast(arg.D_dtype, gelu_backward(Cast(arg.D_dtype, hist.x[i]), Num(1)))

\* C3: with accumulate, the value the multiply leaves (and the epilogue, if
\* any, is given) is alpha * op(A) * op(B) + the prior contents of D, in every
\* backend and every configuration that gets as far as the multiply,
\* including the ones that multiply into scratch.
C3_AccumulateReadsD ==
  (loc.matmuls > 0 /\ arg.accumulate /\ (use_fp8 => arg.A_scale_inv /\ arg.B_scale_inv))
    => \A i \in Elems :
         loc.preact[i] =
           Cast(IF backend = "rocblas" THEN get_transformer_engine_dtype(loc.D_temp_type)
                                       ELSE kFloat32,
                Add(Num(InputScale * Product(i)), D_pre[i]))


\* ---------------------------------------------------------------------------
\* Properties of the plain multiply
\* ---------------------------------------------------------------------------

\* a completed call with no bias and no aux buffer, every device call of which
\* returned success
PlainDone == pc = "done" /\ CallEpilogue = "DEFAULT" /\ ~loc.readbackFailed

\* the scaled product of the operands, as the output type stores it
AB == [i \in Elems |-> Cast(arg.D_dtype, Num(InputScale * Product(i)))]

\* this call repeats the previous one (which did not accumulate) on identical
\* inputs, up to the accumulate flag
RepeatsOverwrite ==
  /\ hist.valid /\ ~hist.arg.accumulate /\ ~hist.readbackFailed
  /\ [hist.arg EXCEPT !.accumulate = arg.accumulate] = arg

\* C4: for the plain multiply in every backend, beta is 1 exactly when
\* accumulate is set, D = cast(scale * A*B + beta * D_old), and a call that
\* repeats an overwriting call on identical inputs leaves 2 * (A*B) with
\* accumulate and A*B without it.
C4_BetaIsAccumulate ==
  PlainDone
    => /\ loc.beta = 1 <=> arg.accumulate
       /\ loc.beta \in {0, 1}
       /\ \A i \in Elems :
            D[i] = IF arg.accumulate
                     THEN Cast(arg.D_dtype, Add(Num(InputScale * Product(i)), D_pre[i]))
                     ELSE AB[i]
       /\ RepeatsOverwrite
            => \A i \in Elems :
                 D[i] = IF arg.accumulate THEN Num(2 * InputScale * Product(i))
                                          ELSE Num(InputScale * Product(i))

\* a second, accumulating call on the inputs of an overwriting first call has
\* completed and D holds twice a non-zero product
C4_Witness ==
  /\ PlainDone /\ calls = 2 /\ RepeatsOverwrite /\ arg.accumulate /\ arg.b = 1
  /\ D[0] = Num(2 * InputScale * Product(0)) /\ D[0] # Num(0)


\* ---------------------------------------------------------------------------
\* Properties of the argument checks
\* ---------------------------------------------------------------------------

Kernels == {"kernel:gelu_forward", "kernel:gelu_backward", "kernel:add_bias",
            "kernel:add_bias_gelu", "kernel:identity", "kernel:bias_gradient"}

\* kernel launches, multiplies and device-memory writes
DeviceWrites == Kernels \cup {"matmul", "gemm", "hipMemset"}

\* everything issued to the library or the device after the entry point's own
\* debug readback
DeviceWork == DeviceWrites \cup {"hipMalloc:D_temp", "hipMalloc:bias_tmp", "hipDeviceSynchronize"}

Happened(events) == \E i \in 1..Len(ev) : ev[i] \in events

NativeBackend == backend \in {"cublasLt", "hipblasLt"}

\* a narrow input whose own inverse-scale pointer is null
NarrowInputWithoutScale ==
  \/ is_fp8_dtype(arg.A_dtype) /\ ~arg.A_scale_inv
  \/ is_fp8_dtype(arg.B_dtype) /\ ~arg.B_scale_inv

\* C5: in every backend a call with a narrow input A or B and a null
\* inverse-scale pointer for it fails, and no kernel launch, multiply or
\* device-memory write happens in it.
C5_NullInverseScaleFailsFirst ==
  NarrowInputWithoutScale
    => pc # "done" /\ loc.matmuls = 0 /\ ~Happened(DeviceWrites)

\* C6 as stated: whenever either operand is narrow, both inverse-scale
\* pointers must be non-null; a null pointer is never handed to the multiply.
C6_BothScalesRequired ==
  (use_fp8 /\ (~arg.A_scale_inv \/ ~arg.B_scale_inv))
    => /\ pc # "done" /\ loc.matmuls = 0
       /\ loc.AscaleAttached # "nullptr" /\ loc.BscaleAttached # "nullptr"

\* C6 amended: in the native backends each narrow operand must carry its own
\* inverse-scale pointer, and nothing else is required: the call fails with
\* the inverse-scale message exactly when a narrow operand's own pointer is
\* null (and the layout is allowed), and the pointers are attached as given,
\* so a null pointer is attached only for an operand that is not narrow.
C6_OwnScaleRequired ==
  NativeBackend
    => /\ (pc \notin {"layout", "log", "check_args"} /\ ~(arg.transa /\ arg.transb))
            => (NarrowInputWithoutScale
                  <=> pc = "failed" /\ err = "FP8 input to GEMM requires inverse of scale!")
       /\ loc.AscaleAttached # "unset" => loc.AscaleAttached = ScalePointer(arg.A_scale_inv)
       /\ loc.BscaleAttached # "unset" => loc.BscaleAttached = ScalePointer(arg.B_scale_inv)
       /\ loc.AscaleAttached = "nullptr" => ~is_fp8_dtype(arg.A_dtype)
       /\ loc.BscaleAttached = "nullptr" => ~is_fp8_dtype(arg.B_dtype)

\* exactly one operand is narrow, the other's inverse-scale pointer is null,
\* and the native multiply has run with that null pointer attached
C6_Witness ==
  /\ NativeBackend /\ pc = "done" /\ loc.matmuls = 1
  /\ is_fp8_dtype(arg.A_dtype) /\ ~is_fp8_dtype(arg.B_dtype)
  /\ arg.A_scale_inv /\ ~arg.B_scale_inv
  /\ loc.AscaleAttached = "ptr" /\ loc.BscaleAttached = "nullptr"

\* C7: in every backend a call with a narrow output D and accumulate set fails
\* before a library handle is created or device work is issued, and never
\* reaches the multiply.
C7_NarrowOutputAccumulateFailsFirst ==
  (is_fp8_dtype(arg.D_dtype) /\ arg.accumulate)
    => /\ pc # "done" /\ loc.matmuls = 0
       /\ live["handle"] = 0
       /\ ~Happened(DeviceWork \cup {"create:handle"})

TTLayout == arg.transa /\ arg.transb

\* C8: a call with both operands transposed goes nowhere but to the failure
\* 'TT layout not allowed.', with no debug readback, no backend step and no
\* device work; the other three layouts never fail with that message.
C8_TTRefused ==
  /\ TTLayout
       => /\ pc \in {"layout", "failed"}
          /\ pc = "failed" => err = "TT layout not allowed."
          /\ ev = <<>> /\ loc.matmuls = 0
          /\ \A o \in ObjKinds : live[o] = 0
          /\ D = D_pre
  /\ ~TTLayout => err # "TT layout not allowed."
  /\ (~TTLayout /\ pc \notin {"layout"}) => loc.lda > 0 /\ loc.ldb > 0 /\ loc.ldd > 0

\* a TT call with the debug switch on has failed before the readback
C8_Witness ==
  TTLayout /\ arg.log /\ pc = "failed" /\ err = "TT layout not allowed." /\ ev = <<>>

\* ---------------------------------------------------------------------------
\* Properties of object lifetimes
\* ---------------------------------------------------------------------------

CallOver == pc \in {"done", "failed"}

\* C9: when a native-fusion call is over, on any path, every library object it
\* created has been destroyed.
C9_NativeObjectsDestroyed ==
  (NativeBackend /\ CallOver) => \A o \in ObjKinds : live[o] = 0

\* C10: when an emulated call is over, on any path, the scratch buffer, the
\* bias-gradient staging buffer and the library handle have been released.
C10_EmulatedBuffersReleased ==
  (backend = "rocblas" /\ CallOver)
    => live["D_temp"] = 0 /\ live["bias_tmp"] = 0 /\ live["handle"] = 0


\* ---------------------------------------------------------------------------
\* Properties of streams, statuses and failures
\* ---------------------------------------------------------------------------

\* the stream argument at the call site of each operation: "stream" is the
\* caller's stream, "0" the null stream.  The native multiply is passed stream;
\* the rocblas handle never has a stream set, every launcher is passed the
\* literal 0, and hipMemset is the synchronous null-stream form
StreamOf(e) ==
  CASE e = "matmul" -> "stream"
    [] e = "gemm" -> "0"
    [] e \in Kernels -> "0"
    [] e = "hipMemset" -> "0"
    [] OTHER -> "host"

\* C11: every multiply, epilogue kernel, zero-fill and downcast copy of a call
\* is issued on the stream the caller supplied, in every backend.
C11_AllWorkOnCallerStream ==
  \A i \in 1..Len(ev) : ev[i] \in DeviceWrites => StreamOf(ev[i]) = "stream"

\* the failure messages of check_cuda_ and check_cublas_
StatusErrors == {"CUDA Error", "CUBLAS Error", "HIPBLASLT Error", "ROCBLAS Error"}

\* C12: a non-success status of any device or library call of a call,
\* the inverse-scale readbacks included, aborts it: the call does not go on to
\* the multiply or an epilogue and does not complete.
C12_BadStatusAborts ==
  /\ loc.readbackFailed => pc # "done" /\ loc.matmuls = 0 /\ ~Happened(DeviceWrites)
  /\ err \in StatusErrors => pc = "failed"

\* the failures that come from the element formats of the arguments
FormatErrors ==
  {"Only the following combinations of data types are enabled now!", NotInstantiated}

\* C13: a call that fails because of its element formats fails with no
\* multiply issued, no kernel launched, no device buffer allocated and D as
\* it was before the call.
C13_FormatFailureBeforeDeviceWork ==
  (pc = "failed" /\ err \in FormatErrors)
    => /\ loc.matmuls = 0 /\ ~Happened(DeviceWork)
       /\ live["D_temp"] = 0 /\ live["bias_tmp"] = 0
       /\ D = D_pre


\* ---------------------------------------------------------------------------
\* Properties of the native descriptor and heuristic
\* ---------------------------------------------------------------------------

\* the native call is past the epilogue attributes
EpilogueSet == pc \in {"preference", "heuristic", "matmul", "destroy", "done"}

\* C14: in the native backends the selector on the descriptor is the fixed
\* table over (bias, activation, gradient) - default with neither, BIAS /
\* BGRADB with bias only, GELU_AUX / DGELU with activation only,
\* GELU_AUX_BIAS / DGELU_BGRAD with both - and the bias pointer is attached
\* exactly when bias is present, the auxiliary pointer exactly when the
\* activation is.
C14_EpilogueTable ==
  NativeBackend
    => /\ EpilogueSet
            => /\ loc.epilogue =
                    CASE ~arg.bias /\ ~arg.gelu -> "DEFAULT"
                      [] arg.bias /\ ~arg.gelu /\ ~arg.grad -> "BIAS"
                      [] arg.bias /\ ~arg.gelu /\ arg.grad -> "BGRADB"
                      [] ~arg.bias /\ arg.gelu /\ ~arg.grad -> "GELU_AUX"
                      [] ~arg.bias /\ arg.gelu /\ arg.grad -> "DGELU"
                      [] arg.bias /\ arg.gelu /\ ~arg.grad -> "GELU_AUX_BIAS"
                      [] arg.bias /\ arg.gelu /\ arg.grad -> "DGELU_BGRAD"
               /\ loc.biasAttached <=> arg.bias
               /\ loc.auxAttached <=> arg.gelu
       /\ loc.biasAttached => arg.bias
       /\ loc.auxAttached => arg.gelu

\* a native gradient call with bias and activation has completed with the
\* gradient selector and both pointers attached
C14_Witness ==
  /\ NativeBackend /\ pc = "done" /\ arg.bias /\ arg.gelu /\ arg.grad
  /\ loc.epilogue = "DGELU_BGRAD" /\ loc.biasAttached /\ loc.auxAttached

NoAlgorithm == "Unable to find any suitable algorithms"

\* C15: in the native backends at most one candidate is requested; zero
\* candidates fail the call with NoAlgorithm and the multiply never runs; with
\* one candidate the multiply runs exactly once.
C15_HeuristicThenOneMultiply ==
  NativeBackend
    => /\ RequestedAlgoCount = 1 /\ loc.returnedResults \in 0..RequestedAlgoCount
       /\ err = NoAlgorithm
            => pc = "failed" /\ loc.returnedResults = 0 /\ loc.matmuls = 0
               /\ ~Happened({"matmul"})
       /\ pc = "matmul" => loc.returnedResults = 1 /\ loc.matmuls = 0
       /\ pc \in {"destroy", "done"} => loc.returnedResults = 1 /\ loc.matmuls = 1
       /\ loc.matmuls \in {0, 1}
       /\ loc.matmuls = 1 => loc.returnedResults = 1 /\ Happened({"matmul"})

\* the heuristic returned no candidate and the call failed without a multiply
C15_Witness ==
  /\ NativeBackend /\ pc = "failed" /\ err = NoAlgorithm
  /\ loc.returnedResults = 0 /\ loc.matmuls = 0 /\ Happened({"create:preference"})


\* ---------------------------------------------------------------------------
\* Properties of the emulated bias epilogues
\* ---------------------------------------------------------------------------

\* a completed emulated call with the given epilogue, every device call of
\* which returned success
EmulatedDone(kind) ==
  backend = "rocblas" /\ pc = "done" /\ CallEpilogue = kind /\ ~loc.readbackFailed

\* the sum over rows r = 0..rows-1 of buf[r * cols + c]
RECURSIVE RowAxisSum(_, _, _, _)
RowAxisSum(buf, rows, cols, c) ==
  IF rows = 0 THEN Num(0)
  ELSE Add(RowAxisSum(buf, rows - 1, cols, c), buf[(rows - 1) * cols + c])

\* the sum over l = 0..k-1 of the flat B buffer read as k rows of n columns
RECURSIVE BFlatSum(_, _)
BFlatSum(l, j) ==
  IF l < 0 THEN 0 ELSE Bmat(l * loc.n + j) + BFlatSum(l - 1, j)

\* C16 as stated: in a bias-only gradient call of the emulated backend the
\* bias gradient is the row-axis reduction of D_temp, one value per column of
\* D_temp (n rows of m columns).
C16_BiasGradReducesDtemp ==
  EmulatedDone("BGRADB")
    => \A c \in 0..(loc.m - 1) :
         biasbuf[c] = Cast(arg.bias_dtype, RowAxisSum(loc.preact, loc.n, loc.m, c))

\* C16 amended: the bias gradient is the reduction of operand B, the upstream
\* gradient, read as k rows of n columns: bias[j] is the sum over l of
\* B[l * n + j], one value per column j of B; D_temp is not reduced and goes
\* to D unchanged.
C16_BiasGradReducesB ==
  EmulatedDone("BGRADB")
    => /\ \A j \in 0..(loc.n - 1) :
            biasbuf[j] = Cast(arg.bias_dtype, Num(BFlatSum(loc.k - 1, j)))
       /\ \A i \in Elems : D[i] = Cast(arg.D_dtype, loc.preact[i])

\* a bias-only gradient call has completed and the reduction of B differs
\* from the row-axis reduction of D_temp
C16_Witness ==
  /\ EmulatedDone("BGRADB") /\ arg.b = 1
  /\ biasbuf[0] = Num(BFlatSum(loc.k - 1, 0))
  /\ biasbuf[0] # Cast(arg.bias_dtype, RowAxisSum(loc.preact, loc.n, loc.m, 0))

\* C17: in a bias-only gradient call of the emulated backend, under every
\* permitted layout, bias_grad[j] is the sum over the batch index l of the
\* upstream-gradient element op(B)(l, j), B addressed by its layout under the
\* transpose flag.
C17_BiasGradFollowsLayout ==
  EmulatedDone("BGRADB")
    => \A j \in 0..(loc.n - 1) : biasbuf[j] = Cast(arg.bias_dtype, BSum(j, loc.k - 1))

\* the operations of ev named "first" all precede those named "then"
Before(first, then) ==
  \A i, j \in 1..Len(ev) : (ev[i] = first /\ ev[j] = then) => i < j

\* C18: in a bias+activation gradient call of the emulated backend
\* D[i] = activation_gradient(aux[i], D_temp[i]) for every element, the bias
\* gradient is the row-axis reduction of that D (n rows of m columns), and
\* the reduction is issued after the activation-gradient kernel.
C18_BiasGradOfActivationGrad ==
  EmulatedDone("DGELU_BGRAD")
    => /\ \A i \in Elems :
            D[i] = Cast(arg.D_dtype, gelu_backward(aux[i], loc.preact[i]))
       /\ \A c \in 0..(loc.m - 1) :
            biasbuf[c] = Cast(arg.bias_dtype, RowAxisSum(D, loc.n, loc.m, c))
       /\ Before("kernel:gelu_backward", "hipMemset")
       /\ Before("kernel:gelu_backward", "kernel:bias_gradient")
       /\ Happened({"kernel:gelu_backward"}) /\ Happened({"kernel:bias_gradient"})

\* such a call has completed and the reduction of D differs from the
\* reduction of the raw upstream gradient
C18_Witness ==
  /\ EmulatedDone("DGELU_BGRAD") /\ arg.b = 1
  /\ biasbuf[0] = Cast(arg.bias_dtype, RowAxisSum(D, loc.n, loc.m, 0))
  /\ biasbuf[0] # Cast(arg.bias_dtype, RowAxisSum(loc.preact, loc.n, loc.m, 0))

\* C19: in a bias+activation forward call of the emulated backend, in place
\* (fp32) and through scratch (fp16), for every row r and column c:
\* aux[r,c] = D_temp[r,c] + bias[c] and D[r,c] = activation(D_temp[r,c] + bias[c]),
\* each stored in the output type.
C19_BiasActivationForward ==
  EmulatedDone("GELU_AUX_BIAS")
    => \A r \in 0..(loc.n - 1), c \in 0..(loc.m - 1) :
         LET i == r * loc.m + c
             sum == Add(loc.preact[i], biasbuf[c])
         IN /\ aux[i] = Cast(arg.D_dtype, sum)
            /\ D[i] = Cast(arg.D_dtype, gelu_forward(sum))

\* an in-place (fp32) bias+activation forward call has completed on a
\* non-zero product
C19_Witness ==
  /\ EmulatedDone("GELU_AUX_BIAS") /\ ~loc.useScratch /\ arg.b = 1
  /\ loc.preact[0] # Num(0)
  /\ D[0] = gelu_forward(Add(loc.preact[0], biasbuf[0]))

\* C20: in a bias-only forward call of the emulated backend, for every row r
\* and column c of the n x m output, D[r,c] = D_temp[r,c] + bias[c]: one bias
\* element per output column, the same in every row.
C20_BiasForward ==
  EmulatedDone("BIAS")
    => \A r \in 0..(loc.n - 1), c \in 0..(loc.m - 1) :
         D[r * loc.m + c] = Cast(arg.D_dtype, Add(loc.preact[r * loc.m + c], biasbuf[c]))

\* a bias-only forward call has completed; two rows received the same bias
\* element and two columns different ones
C20_Witness ==
  /\ EmulatedDone("BIAS") /\ arg.b = 1 /\ loc.n > 1 /\ loc.m > 1
  /\ biasbuf[0] # biasbuf[1]
  /\ D[0] = Cast(arg.D_dtype, Add(loc.preact[0], biasbuf[0]))
  /\ D[loc.m] = Cast(arg.D_dtype, Add(loc.preact[loc.m], biasbuf[0]))
  /\ D[1] = Cast(arg.D_dtype, Add(loc.preact[1], biasbuf[1]))


\* ---------------------------------------------------------------------------
\* Properties of the reduction kernel
\* ---------------------------------------------------------------------------

\* every block of the reduction's grid has done its atomicAdd
ReduceDone ==
  launch.kernel = "bias_gradient" /\ launch.at = "kernel" /\ ran = 0..(launch.grid - 1)

RECURSIVE AddedSoFar(_, _)
AddedSoFar(c, blockIdx) ==
  IF blockIdx < 0 THEN Num(0)
  ELSE Add(AddedSoFar(c, blockIdx - 1),
           IF blockIdx \in ran /\ col_idx(blockIdx, 0) = c THEN local_sum(blockIdx) ELSE Num(0))

C23_ScratchIffEpilogueAndNarrowD ==
  /\ (backend = "rocblas" /\ pc \in {"gemm", "destroy_handle", "epilogue", "free"})
       => (loc.useScratch <=> ((arg.bias \/ arg.gelu) /\ arg.D_dtype # kFloat32))
  /\ (backend = "rocblas" /\ pc = "destroy_handle") =>
       IF loc.useScratch
         THEN live["D_temp"] = 1 /\ scratch = loc.preact /\ D = D_pre
         ELSE live["D_temp"] = 0 /\ D = loc.preact

\* an fp16 output with a bias: the multiply has gone to the scratch buffer
C23_Witness ==
  /\ (backend = "rocblas" /\ pc = "destroy_handle")
  /\ arg.bias /\ arg.D_dtype = kFloat16
  /\ loc.useScratch

\* C25: in the emulated backend the alpha given to the multiply, in a call
\* whose readbacks returned success, is the product of the two inverse-scale
\* values when A or B is narrow and 1 otherwise; the native backends pass 1.
C25_AlphaIsInverseScaleProduct ==
  /\ (backend = "rocblas" /\ loc.matmuls > 0 /\ ~loc.readbackFailed)
       => loc.alpha = IF use_fp8 THEN A_scale_inv_val * B_scale_inv_val ELSE 1
  /\ (NativeBackend /\ loc.matmuls > 0) => loc.alpha = 1

\* an emulated multiply of narrow operands whose inverse scales are not 1
C25_Witness ==
  /\ backend = "rocblas" /\ loc.matmuls > 0 /\ ~loc.readbackFailed
  /\ use_fp8
  /\ loc.alpha # 1 /\ loc.alpha # A_scale_inv_val

\* C27: in the emulated backend, for every accepted element-type triple and
\* every bias / auxiliary combination, the type tag given to the multiply for
\* D_temp is the element type of the buffer D_temp points to: fp32 for the
\* scratch buffer, D's own element type when D_temp is D.
C27_DtempTypeMatchesBuffer ==
  (backend = "rocblas" /\ pc \in {"gemm", "destroy_handle", "epilogue", "free"}) =>
    loc.D_temp_type = IF loc.useScratch THEN "f32_r" ELSE get_cuda_dtype(arg.D_dtype)

\* narrow operands, fp16 output, no epilogue: the multiply has written D with
\* the fp16 tag
C27_Witness ==
  /\ (backend = "rocblas" /\ pc = "destroy_handle")
  /\ use_fp8 /\ arg.D_dtype = kFloat16 /\ ~arg.bias /\ ~arg.gelu
  /\ ~loc.useScratch /\ loc.D_temp_type = "f16_r"

\* the eight element-format triples (A, B, D) the emulated backend multiplies
AcceptedTriples ==
  {<<kFloat16, kFloat16, kFloat16>>, <<kFloat32, kFloat32, kFloat32>>}
    \cup {<<p[1], p[2], d>> : p \in {<<kFloat8E4M3, kFloat8E4M3>>, <<kFloat8E4M3, kFloat8E5M2>>,
                                      <<kFloat8E5M2, kFloat8E4M3>>},
                             d \in {kFloat32, kFloat16}}

Blocking ==
  {"memcpyD2H", "hipDeviceSynchronize", "hipMemset", "hipFree:D_temp", "hipFree:bias_tmp"}

\* C24: the only runtime call of a call that blocks the calling thread on the
\* device is the readback of the inverse-scale scalars, for every epilogue and
\* every bias element type.
C24_OnlyReadbackBlocks ==
  \A i \in DOMAIN ev : ev[i] \in Blocking => ev[i] = "memcpyD2H"

\* only the explicit device synchronization waits for the device
Synchronizes_explicit_only(e) == e = "hipDeviceSynchronize"

\* the runtime calls that return once the device has finished everything issued
\* before them: hipDeviceSynchronize, and hipFree, which waits for the device
\* before it releases the buffer
Synchronizes(e) == e \in {"hipDeviceSynchronize", "hipFree:D_temp", "hipFree:bias_tmp"}

ElementwiseDone ==
  launch.kernel \in ElementwiseKernels /\ ran = 0..(launch.grid - 1)

\* C26: the activation-forward kernel leaves in out[id], for the input x of
\* that element, x * 0.5 * (1 + tanh(0.7978845608 * (x + 0.044715 * x^3))),
\* every operation in single precision (0.7978845608 and the code's
\* 0.7978845608028654f are the same single-precision number) and the result
\* stored once in the output's element type.
C26_GeluForwardFormula ==
  (ElementwiseDone /\ launch.kernel = "gelu_forward") =>
    \A id \in 0..(launch.count - 1) :
      LET x == kin[id]
      IN kout[id] =
           Cast(launch.T,
                Mul(Mul(x, half),
                    Add(Num(1), Tanhf(Mul(kBeta, Add(x, Mul(kKappa, Mul(x, Mul(x, x)))))))))

\* a finished activation-forward launch into an fp16 buffer over inputs that
\* include a negative number, zero and a number larger than 1
C26_Witness ==
  /\ ElementwiseDone /\ launch.kernel = "gelu_forward"
  /\ launch.T = kFloat16
  /\ \E i, j, k \in 0..(launch.count - 1) :
       kin[i] = Num(0 - 1) /\ kin[j] = Num(0) /\ kin[k] = Num(2)

\* C29: for every elementwise launcher and every shape, with the grid and the
\* block the launcher computes (the grid cap of 65536 included), a thread
\* accesses only indices in [0, m * n) and no index in two of its iterations.
C29_EachIndexOnceInRange ==
  (launch.kernel \in ElementwiseKernels /\ launch.at \in {"loop", "exit"}) =>
    /\ \A a \in touched : a[1] >= 0 /\ a[1] < launch.m * launch.n
    /\ \A a, b \in touched : a[1] = b[1] => a = b

====
